---- MODULE Spec2Model ----
(***************************************************************************)
(* AddOperation (core/src/operations/add.rs): the witness populator and    *)
(* the constraint evaluator of 32-bit unsigned addition.                   *)
(*                                                                         *)
(* Numbers.  TLC integers are 32-bit signed, so a u32 is the record        *)
(* [hi, lo] of its two 16-bit halves (x = hi * 2^16 + lo) and every u32    *)
(* operation is computed on the halves with the width kept.  A u8 is an    *)
(* integer in 0..255.  A field element is written as the integer it is the *)
(* image of: every expression eval builds from limbs in 0..255 and the     *)
(* carries drawn here stays below 2^25 in magnitude, so it is zero in a    *)
(* field of larger characteristic exactly when the integer is zero.        *)
(* Sequences are 1-based: limb i of the source is index i + 1 here.        *)
(***************************************************************************)
EXTENDS Integers, Sequences, FiniteSets, TLC

VARIABLES
    value,        \* AddOperation.value : Word<F>, 4 limbs
    carry,        \* AddOperation.carry : [F; 3]
    byte_lookups, \* the segment's range-check recorder, in recording order
    calls,        \* log of the populate calls made: operands and returned value
    populated,    \* populate calls made on the current AddOperation
    outcome,      \* "none", "returned" or "panicked": how the last populate ended
    row,          \* the arguments eval was last given (<<>> before any eval)
    constraints,  \* values of the polynomials eval handed to assert_zero, in order
    sends         \* lookup requests eval emitted, in order

vars == <<value, carry, byte_lookups, calls, populated, outcome, row, constraints, sends>>

(***************************************************************************)
(* Bounds of the model.                                                    *)
(***************************************************************************)
MaxCalls == 2

(***************************************************************************)
(* u8 and u32 arithmetic of the populator.                                 *)
(***************************************************************************)
U32(h, l) == [hi |-> h, lo |-> l]

\* wrapping_add with the carry out of the low half lost
wrapping_add_nocarry(x, y) ==
    [hi |-> (x.hi + y.hi) % 65536, lo |-> (x.lo + y.lo) % 65536]

\* u32::wrapping_add
wrapping_add(x, y) ==
    LET s == x.lo + y.lo
    IN  [hi |-> (x.hi + y.hi + (s \div 65536)) % 65536, lo |-> s % 65536]

\* u32::wrapping_sub
wrapping_sub(x, y) ==
    LET d == x.lo - y.lo
    IN  [hi |-> (x.hi - y.hi - (IF d < 0 THEN 1 ELSE 0)) % 65536, lo |-> d % 65536]

\* (x * y) mod 2^16 for 16-bit x, y, without leaving 32 bits
mul16(x, y) == ((x * (y % 256)) + 256 * ((x * (y \div 256)) % 256)) % 65536

\* u32::wrapping_mul
wrapping_mul(x, y) ==
    LET p1 == x.lo \div 256
        q1 == x.lo % 256
        p2 == y.lo \div 256
        q2 == y.lo % 256
        t  == q1 * q2 + 256 * (p1 * q2 + q1 * p2)
    IN  [hi |-> ((t \div 65536) + p1 * p2 + mul16(x.hi, y.lo) + mul16(x.lo, y.hi)) % 65536,
         lo |-> t % 65536]

\* u32::to_le_bytes
to_le_bytes(x) == << x.lo % 256, x.lo \div 256, x.hi % 256, x.hi \div 256 >>

\* u8::wrapping_add, u8::wrapping_sub, and the cast `as u32`
u8_wrapping_add(x, y) == (x + y) % 256
u8_wrapping_sub(x, y) == (x - y) % 256
as_u32(x) == U32(0, x)

\* Word::from(u32): the four little-endian limbs as field elements
WordFrom(x) ==
    [i \in 1..4 |-> IF i = 1 THEN x.lo - 256 * (x.lo \div 256)
                    ELSE IF i = 2 THEN (x.lo \div 256) % 256
                    ELSE IF i = 3 THEN x.hi - 256 * (x.hi \div 256)
                    ELSE (x.hi \div 256) % 256]

\* AddOperation::default()
DefaultValue == <<0, 0, 0, 0>>
DefaultCarry == <<0, 0, 0>>

(***************************************************************************)
(* populate                                                                *)
(***************************************************************************)
\* the local `carry` array of populate (lines 34-46), limb by limb
carry_0(a, b) == IF a[1] + b[1] > 255 THEN 1 ELSE 0
\* carry_1 that forgets the carry into limb 1
carry_1_noincoming(a, b) == IF a[2] + b[2] > 255 THEN 1 ELSE 0
carry_1(a, b) == IF a[2] + b[2] + carry_0(a, b) > 255 THEN 1 ELSE 0
carry_2(a, b) == IF a[3] + b[3] + carry_1(a, b) > 255 THEN 1 ELSE 0
local_carry(a, b) == << carry_0(a, b), carry_1(a, b), carry_2(a, b) >>

\* self.carry after the three ifs: written with one where the local carry
\* is set, left as it was where it is not
self_carry(old, a, b) ==
    [i \in 1..3 |-> IF local_carry(a, b)[i] = 1 THEN 1 ELSE old[i]]

\* let base = 256u32
populate_base == U32(0, 256)

\* the overflow taken against byte 1 of the sum instead of byte 0
populate_overflow_wrongbyte(a, b, expected) ==
    as_u32(u8_wrapping_sub(u8_wrapping_add(a[1], b[1]), to_le_bytes(expected)[2]))

\* the low-limb overflow of the development-time check
populate_overflow(a, b, expected) ==
    as_u32(u8_wrapping_sub(u8_wrapping_add(a[1], b[1]), to_le_bytes(expected)[1]))

\* debug_assert_eq!(overflow.wrapping_mul(overflow.wrapping_sub(base)), 0)
debug_assert_holds(a, b, expected) ==
    LET overflow == populate_overflow(a, b, expected)
    IN  wrapping_mul(overflow, wrapping_sub(overflow, populate_base)) = U32(0, 0)

\* the bytes collected with the operands swapped
range_check_bytes_swapped(a, b, expected) == b \o a \o to_le_bytes(expected)

\* the 12 bytes collected for range checking
range_check_bytes(a, b, expected) == a \o b \o to_le_bytes(expected)

\* Segment::add_byte_range_checks
add_byte_range_checks(segment, x, y) == Append(segment, [b |-> x, c |-> y])

RECURSIVE range_check_loop(_, _, _)
\* for i in (0..bytes.len()).step_by(2) { segment.add_byte_range_checks(..) }
range_check_loop(segment, bytes, i) ==
    IF i > Len(bytes) THEN segment
    ELSE range_check_loop(add_byte_range_checks(segment, bytes[i], bytes[i + 1]), bytes, i + 2)

Populate(a_u32, b_u32) ==
    LET expected == wrapping_add(a_u32, b_u32)
        a == to_le_bytes(a_u32)
        b == to_le_bytes(b_u32)
        bytes == range_check_bytes(a, b, expected)
    IN  /\ value' = WordFrom(expected)
        /\ carry' = self_carry(carry, a, b)
        /\ populated' = populated + 1
        /\ IF debug_assert_holds(a, b, expected) /\ Len(bytes) % 2 = 0
           THEN /\ byte_lookups' = range_check_loop(byte_lookups, bytes, 1)
                /\ calls' = Append(calls, [a |-> a_u32, b |-> b_u32, ret |-> expected])
                /\ outcome' = "returned"
           ELSE /\ outcome' = "panicked"
                /\ UNCHANGED <<byte_lookups, calls>>
        /\ UNCHANGED <<row, constraints, sends>>

Init ==
    /\ value = DefaultValue
    /\ carry = DefaultCarry
    /\ byte_lookups = <<>>
    /\ calls = <<>>
    /\ populated = 0
    /\ outcome = "none"
    /\ row = <<>>
    /\ constraints = <<>>
    /\ sends = <<>>

(***************************************************************************)
(* eval                                                                    *)
(***************************************************************************)
one == 1
base == 256

\* builder.when(is_real).assert_zero(x): the constraint is scaled by the flag
when_assert_zero(is_real, x) == is_real * x

\* assert_bool(x) is assert_zero(x * (x - 1))
bool_poly(x) == x * (x - one)

overflow_0(a, b, cols) == a[1] + b[1] - cols.value[1]
overflow_1(a, b, cols) == a[2] + b[2] - cols.value[2] + cols.carry[1]
\* overflow_2 without the carry into limb 2
overflow_2_nocarry(a, b, cols) == a[3] + b[3] - cols.value[3]
overflow_2(a, b, cols) == a[3] + b[3] - cols.value[3] + cols.carry[2]
overflow_3(a, b, cols) == a[4] + b[4] - cols.value[4] + cols.carry[3]

\* lines 91-94: the overflow of each limb is zero or the base
overflow_constraints(a, b, cols, is_real) ==
    << when_assert_zero(is_real, overflow_0(a, b, cols) * (overflow_0(a, b, cols) - base)),
       when_assert_zero(is_real, overflow_1(a, b, cols) * (overflow_1(a, b, cols) - base)),
       when_assert_zero(is_real, overflow_2(a, b, cols) * (overflow_2(a, b, cols) - base)),
       when_assert_zero(is_real, overflow_3(a, b, cols) * (overflow_3(a, b, cols) - base)) >>

\* the three lines copied without advancing the carry index
carry_set_constraints_samecarry(a, b, cols, is_real) ==
    << when_assert_zero(is_real, cols.carry[1] * (overflow_0(a, b, cols) - base)),
       when_assert_zero(is_real, cols.carry[1] * (overflow_1(a, b, cols) - base)),
       when_assert_zero(is_real, cols.carry[1] * (overflow_2(a, b, cols) - base)) >>

\* lines 97-99: if the carry is one, the overflow is the base
carry_set_constraints(a, b, cols, is_real) ==
    << when_assert_zero(is_real, cols.carry[1] * (overflow_0(a, b, cols) - base)),
       when_assert_zero(is_real, cols.carry[2] * (overflow_1(a, b, cols) - base)),
       when_assert_zero(is_real, cols.carry[3] * (overflow_2(a, b, cols) - base)) >>

\* the last line checking carry[2] against the overflow of limb 1
carry_clear_constraints_wronglimb(a, b, cols, is_real) ==
    << when_assert_zero(is_real, (cols.carry[1] - one) * overflow_0(a, b, cols)),
       when_assert_zero(is_real, (cols.carry[2] - one) * overflow_1(a, b, cols)),
       when_assert_zero(is_real, (cols.carry[3] - one) * overflow_1(a, b, cols)) >>

\* lines 102-104: if the carry is not one, the overflow is zero
carry_clear_constraints(a, b, cols, is_real) ==
    << when_assert_zero(is_real, (cols.carry[1] - one) * overflow_0(a, b, cols)),
       when_assert_zero(is_real, (cols.carry[2] - one) * overflow_1(a, b, cols)),
       when_assert_zero(is_real, (cols.carry[3] - one) * overflow_2(a, b, cols)) >>

\* the carries asserted boolean on the unscoped builder
bool_constraints_unscoped(cols, is_real) ==
    << bool_poly(cols.carry[1]),
       bool_poly(cols.carry[2]),
       bool_poly(cols.carry[3]),
       when_assert_zero(is_real, bool_poly(is_real)) >>

\* lines 107-110: the carries and the flag are boolean
bool_constraints(cols, is_real) ==
    << when_assert_zero(is_real, bool_poly(cols.carry[1])),
       when_assert_zero(is_real, bool_poly(cols.carry[2])),
       when_assert_zero(is_real, bool_poly(cols.carry[3])),
       when_assert_zero(is_real, bool_poly(is_real)) >>

\* line 133: the degree 3 constraint, asserted on the unscoped builder
degree_3_constraint(a, b, cols) ==
    a[1] * b[1] * cols.value[1] - a[1] * b[1] * cols.value[1]

\* the bytes chained with the result word first
eval_bytes_valuefirst(a, b, cols) == cols.value \o a \o b

\* the bytes eval range checks (lines 114-119)
eval_bytes(a, b, cols) == a \o b \o cols.value

\* CurtaAirBuilder::send_byte_pair(opcode, a1, a2, b, c, multiplicity)
send_byte_pair(requests, opcode, a1, a2, b, c, multiplicity) ==
    Append(requests, [opcode |-> opcode, a1 |-> a1, a2 |-> a2, b |-> b, c |-> c,
                      multiplicity |-> multiplicity])

RECURSIVE send_loop(_, _, _, _)
\* for i in (0..bytes.len()).step_by(2) { builder.send_byte_pair(..) }
send_loop(requests, bytes, is_real, i) ==
    IF i > Len(bytes) THEN requests
    ELSE send_loop(send_byte_pair(requests, "Range", 0, 0, bytes[i], bytes[i + 1], is_real),
                   bytes, is_real, i + 2)

Eval(a, b, cols, is_real) ==
    /\ row' = [a |-> a, b |-> b, cols |-> cols, is_real |-> is_real]
    /\ constraints' = overflow_constraints(a, b, cols, is_real)
                      \o carry_set_constraints(a, b, cols, is_real)
                      \o carry_clear_constraints(a, b, cols, is_real)
                      \o bool_constraints(cols, is_real)
                      \o << degree_3_constraint(a, b, cols) >>
    /\ sends' = send_loop(<<>>, eval_bytes(a, b, cols), is_real, 1)
    /\ UNCHANGED <<value, carry, byte_lookups, calls, populated, outcome>>

(***************************************************************************)
(* Inputs.                                                                 *)
(***************************************************************************)
from_le_bytes(w) == U32(w[3] + 256 * w[4], w[1] + 256 * w[2])

\* operands of the call sequences: every carry pattern, the wraparound and
\* the spec's example scenarios
Operands ==
    { U32(0, 0), U32(0, 1), U32(0, 255), U32(0, 100), U32(0, 200),
      U32(65535, 65535), U32(255, 65280) }

\* operands of the single-row runs: every word with limbs in {0, 1, 255},
\* and the spec's 100 + 200
RowOperands ==
    { from_le_bytes(w) : w \in [1..4 -> {0, 1, 255}] } \cup { U32(0, 100), U32(0, 200) }

Flags == {0, 1}

\* assignments eval is checked on: operand words, any result word whose limbs
\* are the limbs a chain of 0/255/1 operand limbs can produce or miss by one,
\* any carries in CarryVals
EvalWordsA == { <<0, 0, 0, 0>>, <<255, 255, 255, 255>>, <<255, 0, 255, 0>>,
                <<0, 255, 0, 255>>, <<255, 0, 0, 0>>, <<0, 0, 255, 0>>,
                <<255, 255, 0, 0>>, <<0, 0, 255, 255>> }
EvalWordsB == { <<0, 0, 0, 0>>, <<255, 255, 255, 255>>, <<1, 0, 0, 0>>,
                <<0, 1, 0, 0>>, <<0, 0, 1, 0>>, <<1, 1, 1, 1>>,
                <<0, 255, 0, 255>>, <<255, 0, 255, 0>> }
ValueLimbs == {0, 1, 254, 255}
CarryVals == {0, 1, 2}

(***************************************************************************)
(* Specifications.                                                         *)
(***************************************************************************)
\* the trace builder populates the current AddOperation
PopulateStep ==
    /\ outcome # "panicked"
    /\ row = <<>>
    /\ Len(calls) < MaxCalls
    /\ \E a_u32 \in Operands, b_u32 \in Operands : Populate(a_u32, b_u32)

\* the trace builder moves on to a fresh AddOperation (Default) of the same segment
NewRow ==
    /\ outcome = "returned"
    /\ row = <<>>
    /\ Len(calls) < MaxCalls
    /\ value' = DefaultValue
    /\ carry' = DefaultCarry
    /\ populated' = 0
    /\ UNCHANGED <<byte_lookups, calls, outcome, row, constraints, sends>>

\* the constraints are evaluated on the populated row
EvalRow ==
    /\ outcome = "returned"
    /\ populated > 0
    /\ row = <<>>
    /\ \E is_real \in Flags :
          Eval(WordFrom(calls[Len(calls)].a), WordFrom(calls[Len(calls)].b),
               [value |-> value, carry |-> carry], is_real)

Next == PopulateStep \/ NewRow \/ EvalRow

Spec == Init /\ [][Next]_vars

\* one row: a fresh AddOperation populated once, then evaluated
PopulateRow ==
    /\ populated = 0
    /\ calls = <<>>
    /\ \E a_u32 \in RowOperands, b_u32 \in RowOperands : Populate(a_u32, b_u32)

NextRow == PopulateRow \/ EvalRow

SpecRow == Init /\ [][NextRow]_vars

\* eval on an arbitrary assignment of the columns
EvalAny ==
    /\ row = <<>>
    /\ \E a \in EvalWordsA, b \in EvalWordsB, v \in [1..4 -> ValueLimbs],
          c \in [1..3 -> CarryVals], is_real \in Flags :
          Eval(a, b, [value |-> v, carry |-> c], is_real)

NextEval == EvalAny

SpecEval == Init /\ [][NextEval]_vars

(***************************************************************************)
(* Properties.                                                             *)
(***************************************************************************)
LastCall == calls[Len(calls)]

\* r = (x + y) mod 2^32, stated on the 16-bit halves
IsSumMod32(x, y, r) ==
    /\ r.lo \in 0..65535
    /\ r.hi \in 0..65535
    /\ \E k1 \in 0..1, k2 \in 0..1 :
          /\ x.lo + y.lo = r.lo + 65536 * k1
          /\ x.hi + y.hi + k1 = r.hi + 65536 * k2

\* limb0 + 256 * limb1 + 256^2 * limb2 + 256^3 * limb3, as a u32
Decode(w) == U32(w[3] + 256 * w[4], w[1] + 256 * w[2])

LimbsInRange(w) == \A i \in 1..4 : w[i] \in 0..255

\* the carry out of limb i (1-based) of x + y for words x, y: the low i
\* limbs of the operands add up to at least 256^i
TrueCarry(x, y, i) ==
    IF i = 1 THEN x[1] + y[1] >= 256
    ELSE IF i = 2 THEN (x[1] + 256 * x[2]) + (y[1] + 256 * y[2]) >= 65536
    ELSE (x[1] + 256 * x[2] + 65536 * x[3]) + (y[1] + 256 * y[2] + 65536 * y[3]) >= 16777216

\* C1: populate(a, b) returns (a + b) mod 2^32 and the Word it writes into
\* value has limbs in 0..255 that decode to the returned number.
C1_ReturnsWrappedSum ==
    populated > 0 =>
        /\ outcome = "returned"
        /\ IsSumMod32(LastCall.a, LastCall.b, LastCall.ret)
        /\ LimbsInRange(value)
        /\ Decode(value) = LastCall.ret

C1_Witness ==
    /\ populated > 0
    /\ LastCall.a = U32(65535, 65535)
    /\ LastCall.b = U32(0, 1)
    /\ LastCall.ret = U32(0, 0)
    /\ value = <<0, 0, 0, 0>>

\* C2: after populate on a fresh AddOperation carry[i] is 1 exactly when
\* a[i] + b[i] + carry[i-1] > 255 (carry[-1] = 0) and 0 otherwise, and
\* (a[i] + b[i] + carry[i-1]) mod 256 with the recorded carries is limb i of
\* the returned sum, for every limb.
C2_CarriesRebuildSum ==
    (populated = 1 /\ outcome = "returned") =>
        LET a == to_le_bytes(LastCall.a)
            b == to_le_bytes(LastCall.b)
            s == to_le_bytes(LastCall.ret)
            cin(i) == IF i = 1 THEN 0 ELSE carry[i - 1]
        IN  /\ \A i \in 1..3 : carry[i] = IF a[i] + b[i] + cin(i) > 255 THEN 1 ELSE 0
            /\ \A i \in 1..4 : (a[i] + b[i] + cin(i)) % 256 = s[i]

C2_Witness ==
    /\ populated = 1
    /\ LastCall.a = U32(0, 100)
    /\ LastCall.b = U32(0, 200)
    /\ LastCall.ret = U32(0, 300)
    /\ carry = <<1, 0, 0>>

\* C3: the columns populate writes into a fresh AddOperation, with the limbs
\* of a and b and flag 1, make all 15 polynomials eval asserts evaluate to 0.
C3_Completeness ==
    (row # <<>> /\ populated = 1 /\ row.is_real = 1) =>
        /\ Len(constraints) = 15
        /\ \A i \in 1..Len(constraints) : constraints[i] = 0

C3_Witness ==
    /\ row # <<>>
    /\ populated = 1
    /\ row.is_real = 1
    /\ row.cols.carry = <<1, 0, 1>>
    /\ Len(constraints) = 15

AllConstraintsZero == \A i \in 1..Len(constraints) : constraints[i] = 0

\* C4: with flag 1 and all limbs of a, b and value in 0..255, if every
\* polynomial eval asserts is zero then value decodes to (a + b) mod 2^32
\* and every carry is the true carry out of its limb.
C4_Soundness ==
    (/\ row # <<>>
     /\ row.is_real = 1
     /\ LimbsInRange(row.a) /\ LimbsInRange(row.b) /\ LimbsInRange(row.cols.value)
     /\ AllConstraintsZero) =>
        /\ IsSumMod32(Decode(row.a), Decode(row.b), Decode(row.cols.value))
        /\ \A i \in 1..3 :
              row.cols.carry[i] = IF TrueCarry(row.a, row.b, i) THEN 1 ELSE 0

C4_Witness ==
    /\ row # <<>>
    /\ row.is_real = 1
    /\ AllConstraintsZero
    /\ row.a = <<255, 255, 255, 255>>
    /\ row.b = <<1, 0, 0, 0>>
    /\ row.cols.carry = <<1, 1, 1>>
    /\ row.cols.value = <<0, 0, 0, 0>>

\* C5: with flag 0 the 14 assertions made inside when(is_real) are zero
\* whatever the columns hold.
C5_InactiveRowNeutral ==
    (row # <<>> /\ row.is_real = 0) =>
        /\ Len(constraints) = 15
        /\ \A i \in 1..14 : constraints[i] = 0

C5_Witness ==
    /\ row # <<>>
    /\ row.is_real = 0
    /\ row.cols.carry = <<2, 0, 2>>
    /\ overflow_0(row.a, row.b, row.cols) \notin {0, 256}
    /\ overflow_3(row.a, row.b, row.cols) \notin {0, 256}

\* the six pairs of one row, in the fixed order
RowPairs(a, b, s) ==
    << [b |-> a[1], c |-> a[2]], [b |-> a[3], c |-> a[4]],
       [b |-> b[1], c |-> b[2]], [b |-> b[3], c |-> b[4]],
       [b |-> s[1], c |-> s[2]], [b |-> s[3], c |-> s[4]] >>

\* C6: after n populate calls the recorder holds 6n events, those of call k
\* at 6(k-1)+1 .. 6k in the order (a0,a1),(a2,a3),(b0,b1),(b2,b3),
\* (sum0,sum1),(sum2,sum3).
C6_SixEventsPerCall ==
    /\ Len(byte_lookups) = 6 * Len(calls)
    /\ \A k \in 1..Len(calls) :
          SubSeq(byte_lookups, 6 * (k - 1) + 1, 6 * k)
             = RowPairs(to_le_bytes(calls[k].a), to_le_bytes(calls[k].b),
                        to_le_bytes(calls[k].ret))

C6_Witness ==
    /\ Len(calls) = 2
    /\ Len(byte_lookups) = 12
    /\ calls[1].a = U32(255, 65280)
    /\ calls[1].b = U32(0, 1)
    /\ calls[2].a = U32(0, 100)
    /\ byte_lookups[1] = [b |-> 0, c |-> 255]
    /\ byte_lookups[7] = [b |-> 100, c |-> 0]

\* C7: populate never aborts: the overflow of its development-time check is
\* 0 or 256 for every pair of operands, and the call returns.
C7_NeverAborts ==
    /\ outcome # "panicked"
    /\ populated > 0 =>
          /\ outcome = "returned"
          /\ Len(calls) > 0
          /\ populate_overflow(to_le_bytes(LastCall.a), to_le_bytes(LastCall.b), LastCall.ret)
                \in {U32(0, 0), U32(0, 256)}
          /\ Len(range_check_bytes(to_le_bytes(LastCall.a), to_le_bytes(LastCall.b),
                                   LastCall.ret)) = 12

C7_Witness ==
    /\ outcome = "returned"
    /\ populated = 1
    /\ to_le_bytes(LastCall.a)[1] = 255
    /\ to_le_bytes(LastCall.b)[1] = 255
    /\ to_le_bytes(LastCall.ret)[1] = 254

\* C8: eval emits 6 lookup requests, one per pair of a, b, value in order,
\* each with the Range opcode, two zero fillers and the flag as
\* multiplicity; on the populated row their byte pairs are the 6 events
\* populate recorded for that row.
C8_SendsMatchRecorder ==
    row # <<>> =>
        LET bytes == row.a \o row.b \o row.cols.value
        IN  /\ Len(sends) = 6
            /\ \A k \in 1..6 :
                  sends[k] = [opcode |-> "Range", a1 |-> 0, a2 |-> 0,
                              b |-> bytes[2 * k - 1], c |-> bytes[2 * k],
                              multiplicity |-> row.is_real]
            /\ \A k \in 1..6 :
                  /\ sends[k].b = byte_lookups[Len(byte_lookups) - 6 + k].b
                  /\ sends[k].c = byte_lookups[Len(byte_lookups) - 6 + k].c

C8_Witness ==
    /\ row # <<>>
    /\ row.is_real = 1
    /\ Len(calls) = 2
    /\ sends[1].b = 255
    /\ sends[3].b = 1
    /\ sends[5] = [opcode |-> "Range", a1 |-> 0, a2 |-> 0, b |-> 0, c |-> 1,
                   multiplicity |-> 1]

\* a carry of the wrong polarity at limb i (1-based): clear with overflow
\* 256, or set with overflow 0
WrongPolarity(a, b, cols) ==
    \/ cols.carry[1] = 0 /\ overflow_0(a, b, cols) = 256
    \/ cols.carry[1] = 1 /\ overflow_0(a, b, cols) = 0
    \/ cols.carry[2] = 0 /\ overflow_1(a, b, cols) = 256
    \/ cols.carry[2] = 1 /\ overflow_1(a, b, cols) = 0
    \/ cols.carry[3] = 0 /\ overflow_2(a, b, cols) = 256
    \/ cols.carry[3] = 1 /\ overflow_2(a, b, cols) = 0

\* flag 1, limbs in range, boolean carries, the four overflow identities
\* satisfied, a carry of the wrong polarity and a value that is not the sum
PassesOverflowOnly ==
    /\ row # <<>>
    /\ row.is_real = 1
    /\ LimbsInRange(row.a) /\ LimbsInRange(row.b) /\ LimbsInRange(row.cols.value)
    /\ \A i \in 1..3 : row.cols.carry[i] \in {0, 1}
    /\ \A i \in 1..4 : constraints[i] = 0
    /\ WrongPolarity(row.a, row.b, row.cols)
    /\ ~IsSumMod32(Decode(row.a), Decode(row.b), Decode(row.cols.value))

\* C9: an assignment that satisfies the overflow identities of all four
\* limbs with a carry of the wrong polarity and a wrong value makes one of
\* the six coupling polynomials (the 5th to the 10th asserted) nonzero.
C9_CouplingNeeded ==
    PassesOverflowOnly => \E j \in 5..10 : constraints[j] # 0

C9_Witness ==
    /\ PassesOverflowOnly
    /\ row.a = <<255, 0, 0, 0>>
    /\ row.b = <<1, 0, 0, 0>>
    /\ row.cols.value = <<0, 0, 0, 0>>
    /\ row.cols.carry = <<0, 0, 0>>

\* C10: after any sequence of populate calls on one AddOperation, value and
\* carry are what a fresh AddOperation holds after the last call alone.
C10_ColumnsDependOnOperandsOnly ==
    (populated > 0 /\ outcome = "returned") =>
        /\ value = WordFrom(wrapping_add(LastCall.a, LastCall.b))
        /\ carry = self_carry(DefaultCarry, to_le_bytes(LastCall.a), to_le_bytes(LastCall.b))

====
